---- MODULE Spec2Model ----
(***************************************************************************)
(* CORS scanner (main.go): command-line entry point, the single-URL        *)
(* prober testCORS, the bounded-concurrency bulk scanner testBulkCORS      *)
(* with its semaphore channel, mutex and WaitGroup, the report writer and  *)
(* the console summary.                                                    *)
(*                                                                         *)
(* Strings are TLA+ strings; a character is a string of length one.       *)
(* The Timestamp field of CORSTestResult (time.Now at main.go:97) is not   *)
(* modelled: nothing in the program decides on it.  Neither is -verbose,   *)
(* which only adds log lines, nor the value of -timeout: a request that    *)
(* runs out of time is one of the failures the network may answer with.    *)
(* A scan under -concurrency 0 stops with every worker blocked on the      *)
(* channel: that state has no successor.                                   *)
(***************************************************************************)
EXTENDS Integers, Sequences, FiniteSets, TLC

(***************************************************************************)
(* Bounds of the model.                                                    *)
(***************************************************************************)
\* Largest number of lines the scanner loop reads from the input file.
MaxLines == 2

\* The longest result list handed to printSummary on its own.
MaxResults == 3

(***************************************************************************)
(* String helpers (package strings).                                       *)
(***************************************************************************)
CharAt(s, i) == SubSeq(s, i, i)

HasPrefix(s, p) == Len(s) >= Len(p) /\ SubSeq(s, 1, Len(p)) = p

\* strings.Contains(s, sub)
Contains(s, sub) ==
    \E i \in 1..(Len(s) - Len(sub) + 1) : SubSeq(s, i, i + Len(sub) - 1) = sub

\* Position of the first occurrence of character c in s, 0 when absent.
IndexOf(s, c) ==
    IF \E i \in 1..Len(s) : CharAt(s, i) = c
    THEN CHOOSE i \in 1..Len(s) :
            CharAt(s, i) = c /\ \A j \in 1..(i - 1) : CharAt(s, j) # c
    ELSE 0

UpperLetters == "ABCDEFGHIJKLMNOPQRSTUVWXYZ"
LowerLetters == "abcdefghijklmnopqrstuvwxyz"
Digits == "0123456789"

CharsOf(s) == {CharAt(s, i) : i \in 1..Len(s)}

UpperSet == CharsOf(UpperLetters)
LowerSet == CharsOf(LowerLetters)
DigitSet == CharsOf(Digits)

\* The lower-case letter of each upper-case letter.
LowerOf == [c \in UpperSet |-> CharAt(LowerLetters, IndexOf(UpperLetters, c))]

IsLetter(c) == c \in UpperSet \/ c \in LowerSet

ToLowerChar(c) == IF c \in UpperSet THEN LowerOf[c] ELSE c

RECURSIVE ToLower(_)
\* strings.ToLower(s)
ToLower(s) ==
    IF Len(s) = 0 THEN ""
    ELSE ToLowerChar(CharAt(s, 1)) \o ToLower(SubSeq(s, 2, Len(s)))

IsSpace(c) == c = " "

RECURSIVE TrimLeft(_)
TrimLeft(s) ==
    IF Len(s) > 0 /\ IsSpace(CharAt(s, 1)) THEN TrimLeft(SubSeq(s, 2, Len(s))) ELSE s

RECURSIVE TrimRight(_)
TrimRight(s) ==
    IF Len(s) > 0 /\ IsSpace(CharAt(s, Len(s)))
    THEN TrimRight(SubSeq(s, 1, Len(s) - 1))
    ELSE s

\* strings.TrimSpace(s)
TrimSpace(s) == TrimRight(TrimLeft(s))

RECURSIVE Join(_, _)
\* strings.Join(values, sep)
Join(values, sep) ==
    IF Len(values) = 0 THEN ""
    ELSE IF Len(values) = 1 THEN values[1]
    ELSE values[1] \o sep \o Join(Tail(values), sep)

(***************************************************************************)
(* url.Parse, as far as the program depends on it: the scheme, the         *)
(* authority and whether parsing fails.  Queries, fragments, user          *)
(* information and ports are outside the inputs of the model.              *)
(***************************************************************************)
RECURSIVE SchemeEnd(_, _)
\* net/url getScheme: the position of the colon that ends a scheme, 0 when
\* the string has no scheme, -1 when it starts with a colon (an error).
SchemeEnd(raw, i) ==
    IF i > Len(raw) THEN 0
    ELSE LET c == CharAt(raw, i) IN
         IF IsLetter(c) THEN SchemeEnd(raw, i + 1)
         ELSE IF c \in DigitSet \/ c = "+" \/ c = "-" \/ c = "."
              THEN IF i = 1 THEN 0 ELSE SchemeEnd(raw, i + 1)
         ELSE IF c = ":" THEN (IF i = 1 THEN -1 ELSE i)
         ELSE 0

\* A host may not hold a space (net/url parseHost rejects it).
ValidHost(h) == ~Contains(h, " ")

NoURL == [err |-> TRUE, Scheme |-> "", Host |-> "", Opaque |-> "", Path |-> ""]

ParsedURL(scheme, host, opaque, path) ==
    [err |-> FALSE, Scheme |-> scheme, Host |-> host, Opaque |-> opaque, Path |-> path]

\* The part of s before its first slash.
FirstSegment(s, slash) == IF slash = 0 THEN s ELSE SubSeq(s, 1, slash - 1)

\* The part of s from its first slash on.
FromSlash(s, slash) == IF slash = 0 THEN "" ELSE SubSeq(s, slash, Len(s))

\* The authority that follows "//" ends at the next slash; it is the host.
ParseAuthority(scheme, after, slash) ==
    IF ValidHost(FirstSegment(after, slash))
    THEN ParsedURL(scheme, FirstSegment(after, slash), "", FromSlash(after, slash))
    ELSE NoURL

\* net/url parse, once the scheme is split off.
ParseRest(scheme, rest) ==
    IF ~HasPrefix(rest, "/") /\ scheme # ""
    THEN ParsedURL(scheme, "", rest, "")
    ELSE IF ~HasPrefix(rest, "/") /\ Contains(FirstSegment(rest, IndexOf(rest, "/")), ":")
    THEN NoURL
    ELSE IF HasPrefix(rest, "//") /\ (scheme # "" \/ ~HasPrefix(rest, "///"))
    THEN ParseAuthority(scheme, SubSeq(rest, 3, Len(rest)),
                        IndexOf(SubSeq(rest, 3, Len(rest)), "/"))
    ELSE ParsedURL(scheme, "", "", rest)

\* raw with the scheme that ends at position e split off.
ParseFrom(raw, e) ==
    IF e = -1 THEN NoURL
    ELSE IF e = 0 THEN ParseRest("", raw)
    ELSE ParseRest(ToLower(SubSeq(raw, 1, e - 1)), SubSeq(raw, e + 1, Len(raw)))

urlParse(raw) == ParseFrom(raw, SchemeEnd(raw, 1))

IsValid(parsed) == ~parsed.err /\ parsed.Scheme # "" /\ parsed.Host # ""

isValidURL(urlStr) == IsValid(urlParse(urlStr))


(***************************************************************************)
(* Inputs of a run: the command line, the input file and the network.      *)
(***************************************************************************)
\* Values of -url ("" is the flag's default: not given).
UrlInputPool == {"", "http://a.t/", "http://r.t/", "ftp://c.t/", "a.t/x", ":bad"}

\* Values of -file ("" is the flag's default); only "urls.txt" can be opened.
FileInputPool == {"", "urls.txt", "missing.txt"}

\* Lines the input file may hold.
LinePool == {"http://a.t/", "  https://b.t  ", "a.t/x", "   ", "http://", ":bad"}

\* Values of -method.
MethodPool == {"GET", "G T"}

\* Values of -concurrency: negative, zero, 1 .. N and N + 10.
ConcurrencyPool == (-1..MaxLines) \cup {MaxLines + 10}

\* Response header names the servers of the model may send.
HeaderPool ==
    {"Access-Control-Allow-Origin", "Access-Control-Allow-Credentials",
     "X-Access-Control-Max-Age", "Content-Type", "Vary"}

\* The values each header carries when a server sends it.
HeaderValues(name) ==
    CASE name = "Access-Control-Allow-Origin" -> <<"*">>
      [] name = "Access-Control-Allow-Credentials" -> <<"true">>
      [] name = "X-Access-Control-Max-Age" -> <<"600">>
      [] name = "Content-Type" -> <<"text/html">>
      [] OTHER -> <<"Origin", "Accept">>

HeaderOf(names) == [n \in names |-> HeaderValues(n)]

Response(status, names) ==
    [kind |-> "response", StatusCode |-> status, Header |-> HeaderOf(names), msg |-> ""]

Failure(msg) ==
    [kind |-> "error", StatusCode |-> 0, Header |-> HeaderOf({}), msg |-> msg]

\* What the network may answer to a request sent to a host.
Network(host) ==
    CASE host = "a.t" ->
            {Failure("context deadline exceeded"),
             Response(200, {"Access-Control-Allow-Origin",
                            "Access-Control-Allow-Credentials", "Content-Type"})}
      [] host = "b.t" ->
            {Failure("connection refused"), Response(404, {"Content-Type"})}
      [] host = "r.t" ->
            {Failure("no such host")}
            \cup {Response(st, names) : st \in {200, 500}, names \in SUBSET HeaderPool}
      [] OTHER -> {Failure("no such host")}

\* The orders in which a range over a map of these keys may visit them.
Orders(keys) ==
    {o \in [1..Cardinality(keys) -> keys] : \A i, j \in DOMAIN o : i # j => o[i] # o[j]}

(***************************************************************************)
(* The prober.                                                             *)
(***************************************************************************)
\* net/http validMethod: a non-empty token; a space is no token character.
validMethod(method) == Len(method) > 0 /\ ~Contains(method, " ")

\* An Origin with nothing appended.
ProbeSuffixNone == ""

ProbeSuffix == "-test.cors.com"

NoRequest(err, method) ==
    [err |-> err, Method |-> method, URL |-> NoURL, Header |-> HeaderOf({})]

\* main.go:111-119: the headers of the request, the spoofed Origin last.
RequestFor(method, parsedURL, config) ==
    IF parsedURL.err THEN NoRequest("parse error", method)
    ELSE [err |-> "", Method |-> method, URL |-> parsedURL,
          Header |-> ("Origin" :> (parsedURL.Scheme \o "://" \o parsedURL.Host
                                   \o ProbeSuffix))
                     @@ config.Headers]

\* http.NewRequest: an empty method means GET, an invalid one is an error.
NewRequest(method, targetURL, config) ==
    IF ~validMethod(method) THEN NoRequest("net/http: invalid method", method)
    ELSE RequestFor(method, urlParse(targetURL), config)

\* main.go:105-119: the request testCORS builds, or the failure to build it.
BuildRequest(targetURL, config) ==
    NewRequest(IF config.Method = "" THEN "GET" ELSE config.Method, targetURL, config)

\* client.Do reaches the network only for an http or https URL with a host.
ReachesNetwork(req) ==
    req.err = "" /\ req.URL.Scheme \in {"http", "https"} /\ req.URL.Host # ""

\* main.go:121: client.Do(req), given what the network answers.
ClientDo(req, reply) ==
    IF req.URL.Scheme \notin {"http", "https"}
    THEN Failure("unsupported protocol scheme")
    ELSE IF req.URL.Host = "" THEN Failure("http: no Host in request URL")
    ELSE reply

isCORSHeaderEq(header) ==
    header \in {"access-control-allow-origin", "access-control-allow-methods",
                "access-control-allow-headers", "access-control-allow-credentials",
                "access-control-expose-headers", "access-control-max-age"}

corsHeaders ==
    <<"access-control-allow-origin", "access-control-allow-methods",
      "access-control-allow-headers", "access-control-allow-credentials",
      "access-control-expose-headers", "access-control-max-age">>

isCORSHeader(header) ==
    \E i \in 1..Len(corsHeaders) : Contains(header, corsHeaders[i])

\* main.go:132-138: the body of the loop for one key.
ScanHeader(result, key, headerValue, keyLower) ==
    IF isCORSHeader(keyLower)
    THEN [result EXCEPT !.Headers = (key :> headerValue) @@ @,
                        !.HasCORS = TRUE,
                        !.CORSHeaders = Append(@, key)]
    ELSE [result EXCEPT !.Headers = (key :> headerValue) @@ @]

RECURSIVE ScanHeaders(_, _, _)
\* main.go:130-139: the loop over resp.Header, visiting the keys in `order`.
ScanHeaders(result, header, order) ==
    IF Len(order) = 0 THEN result
    ELSE ScanHeaders(ScanHeader(result, Head(order),
                                Join(header[Head(order)], ", "),
                                ToLower(Head(order))),
                     header, Tail(order))

NewResult(targetURL) ==
    [URL |-> targetURL, StatusCode |-> 0, Headers |-> HeaderOf({}), Error |-> "",
     HasCORS |-> FALSE, CORSHeaders |-> <<>>]

\* Conclude that returns the untouched result when client.Do fails.
ConcludeSilent(result, resp, order) ==
    IF resp.kind = "error"
    THEN result
    ELSE ScanHeaders([result EXCEPT !.StatusCode = resp.StatusCode],
                     resp.Header, order)

\* main.go:121-141: from client.Do's return to testCORS's.
Conclude(result, resp, order) ==
    IF resp.kind = "error"
    THEN [result EXCEPT !.Error = "Request failed: " \o resp.msg]
    ELSE ScanHeaders([result EXCEPT !.StatusCode = resp.StatusCode],
                     resp.Header, order)

\* Perform that records the error of http.NewRequest and goes on.
PerformNoReturn(result, req, reply, order) ==
    IF req.err # ""
    THEN Conclude([result EXCEPT !.Error = "Error creating request: " \o req.err],
                  reply, order)
    ELSE Conclude(result, ClientDo(req, reply), order)

\* main.go:105-141, given the request built.
Perform(result, req, reply, order) ==
    IF req.err # ""
    THEN [result EXCEPT !.Error = "Error creating request: " \o req.err]
    ELSE Conclude(result, ClientDo(req, reply), order)

\* main.go:93-142; `reply` is the network's answer should the request reach
\* it, `order` the order in which the response's header map is ranged over.
testCORS(targetURL, config, reply, order) ==
    Perform(NewResult(targetURL), BuildRequest(targetURL, config), reply, order)

\* The (reply, order) pairs a probe of targetURL may meet.
Worlds(targetURL) ==
    UNION {{<<reply, order>> : order \in Orders(DOMAIN reply.Header)} :
             reply \in Network(urlParse(targetURL).Host)}

(***************************************************************************)
(* State of a run.                                                         *)
(***************************************************************************)
VARIABLES
    flags,      \* the parsed command line (main.go:34-44)
    mainpc,     \* where main is
    exit,       \* the process's end: its exit code and why, code -1 while running
    console,    \* what was printed to standard output, in order
    lines,      \* how many lines the scanner has read (main.go:153)
    urls,       \* testBulkCORS's urls (main.go:151)
    gate,       \* TRUE once the semaphore channel exists (main.go:171)
    semaphore,  \* number of elements in the semaphore channel's buffer
    mu,         \* 0 when the mutex is free, else the worker holding it
    wg,         \* the WaitGroup's counter
    next,       \* index of the next url the loop of main.go:173 takes
    wpc,        \* where each worker goroutine is
    result,     \* each worker's local result (main.go:180)
    shared,     \* testBulkCORS's results (main.go:168)
    results,    \* main's results (main.go:67)
    calls,      \* the invocations of testCORS so far, per caller (0 is main)
    report      \* the report file: <<"none">> until created, then its blocks

vars == <<flags, mainpc, exit, console, lines, urls, gate, semaphore, mu, wg,
          next, wpc, result, shared, results, calls, report>>

Workers == 1..MaxLines

Running == [code |-> -1, reason |-> ""]

\* main.go:58-65
Config ==
    [Method |-> flags.method, Headers |-> ("User-Agent" :> "CORS-Testing-Tool/1.0"),
     Concurrency |-> flags.concurrency]

NoResult == NewResult("")

Init ==
    /\ flags \in [showVersion : BOOLEAN, urlInput : UrlInputPool,
                  fileInput : FileInputPool, method : MethodPool,
                  concurrency : ConcurrencyPool]
    /\ mainpc = "start"
    /\ exit = Running
    /\ console = <<>>
    /\ lines = 0
    /\ urls = <<>>
    /\ gate = FALSE
    /\ semaphore = 0
    /\ mu = 0
    /\ wg = 0
    /\ next = 1
    /\ wpc = [w \in Workers |-> "idle"]
    /\ result = [w \in Workers |-> NoResult]
    /\ shared = <<>>
    /\ results = <<>>
    /\ calls = [w \in {0} \cup Workers |-> <<>>]
    /\ report = <<"none">>

Alive == exit.code = -1

\* log.Fatal, os.Exit and a panic end the process with every goroutine in it.
Die(code, reason) ==
    /\ exit' = [code |-> code, reason |-> reason]
    /\ mainpc' = "exit"

NoAnswer == [kind |-> "none", StatusCode |-> 0, Header |-> HeaderOf({}), msg |-> ""]

\* One invocation of testCORS, for the record: the URL it was handed, whether
\* it built a request and with which Origin, whether the request went out to
\* the network, what client.Do returned, and the result it returned.
CallRecord(targetURL, req, reply, res) ==
    [url |-> targetURL, built |-> req.err = "",
     network |-> ReachesNetwork(req),
     origin |-> IF req.err = "" THEN req.Header["Origin"] ELSE "",
     answer |-> IF req.err = "" THEN ClientDo(req, reply) ELSE NoAnswer,
     result |-> res]

Invoke(targetURL, config, reply, order) ==
    CallRecord(targetURL, BuildRequest(targetURL, config), reply,
               testCORS(targetURL, config, reply, order))

\* main.go:73-74: main's own call of testCORS.
SingleCall(call) ==
    /\ results' = Append(results, call.result)
    /\ calls' = [calls EXCEPT ![0] = Append(@, call)]

\* main.go:180: a worker's call of testCORS.
WorkerCall(w, call) ==
    /\ result' = [result EXCEPT ![w] = call.result]
    /\ calls' = [calls EXCEPT ![w] = Append(@, call)]

(***************************************************************************)
(* main                                                                    *)
(***************************************************************************)
\* main.go:46-49
ShowVersion ==
    /\ Alive /\ mainpc = "start"
    /\ flags.showVersion
    /\ console' = Append(console, "CORS Tool v1.0.0")
    /\ Die(0, "version")
    /\ UNCHANGED <<flags, lines, urls, gate, semaphore, mu, wg, next, wpc, result,
                   shared, results, calls, report>>

\* Usage that exits with status 0.
UsageExitsZero ==
    /\ Alive /\ mainpc = "start"
    /\ ~flags.showVersion
    /\ flags.urlInput = "" /\ flags.fileInput = ""
    /\ console' = console \o <<"Error: Either -url or -file must be specified",
                               "Usage: cors-tool -url <URL> | -file <filename> [options]">>
    /\ Die(0, "usage")
    /\ UNCHANGED <<flags, lines, urls, gate, semaphore, mu, wg, next, wpc, result,
                   shared, results, calls, report>>

\* main.go:51-56
Usage ==
    /\ Alive /\ mainpc = "start"
    /\ ~flags.showVersion
    /\ flags.urlInput = "" /\ flags.fileInput = ""
    /\ console' = console \o <<"Error: Either -url or -file must be specified",
                               "Usage: cors-tool -url <URL> | -file <filename> [options]">>
    /\ Die(1, "usage")
    /\ UNCHANGED <<flags, lines, urls, gate, semaphore, mu, wg, next, wpc, result,
                   shared, results, calls, report>>

\* main.go:69-74
SingleURL ==
    /\ Alive /\ mainpc = "start"
    /\ ~flags.showVersion
    /\ flags.urlInput # ""
    /\ \E world \in Worlds(flags.urlInput) :
          SingleCall(Invoke(flags.urlInput, Config, world[1], world[2]))
    /\ mainpc' = "save"
    /\ UNCHANGED <<flags, exit, console, lines, urls, gate, semaphore, mu, wg, next,
                   wpc, result, shared, report>>

\* main.go:79, 145-149
OpenFile ==
    /\ Alive /\ mainpc = "start"
    /\ ~flags.showVersion
    /\ flags.urlInput = "" /\ flags.fileInput # ""
    /\ IF flags.fileInput = "urls.txt"
       THEN mainpc' = "scan" /\ exit' = exit
       ELSE Die(1, "Error opening file")
    /\ UNCHANGED <<flags, console, lines, urls, gate, semaphore, mu, wg, next, wpc,
                   result, shared, results, calls, report>>

\* Collect without the call of isValidURL.
CollectUnchecked(list, url) ==
    IF url # "" THEN Append(list, url) ELSE list

\* main.go:155-157: a line that is blank or no valid URL is skipped.
Collect(list, url) ==
    IF url # "" /\ isValidURL(url) THEN Append(list, url) ELSE list

\* main.go:153-158: one iteration of the scanner loop.
ScanLine ==
    /\ Alive /\ mainpc = "scan"
    /\ lines < MaxLines
    /\ \E text \in LinePool : urls' = Collect(urls, TrimSpace(text))
    /\ lines' = lines + 1
    /\ UNCHANGED <<flags, mainpc, exit, console, gate, semaphore, mu, wg, next, wpc,
                   result, shared, results, calls, report>>

\* ScanEnd without the check of main.go:164-166.
ScanEndNoCheck ==
    /\ Alive /\ mainpc = "scan"
    /\ \E readError \in BOOLEAN :
          IF readError THEN Die(1, "Error reading file")
          ELSE mainpc' = "gate" /\ exit' = exit
    /\ UNCHANGED <<flags, console, lines, urls, gate, semaphore, mu, wg, next, wpc,
                   result, shared, results, calls, report>>

\* main.go:160-166: the scanner stops, at the end of the file or on a read error.
ScanEnd ==
    /\ Alive /\ mainpc = "scan"
    /\ \E readError \in BOOLEAN :
          IF readError THEN Die(1, "Error reading file")
          ELSE IF Len(urls) = 0 THEN Die(1, "No valid URLs found in file")
          ELSE mainpc' = "gate" /\ exit' = exit
    /\ UNCHANGED <<flags, console, lines, urls, gate, semaphore, mu, wg, next, wpc,
                   result, shared, results, calls, report>>

\* main.go:168-171: make(chan struct{}, n) panics for a negative n.
MakeGate ==
    /\ Alive /\ mainpc = "gate"
    /\ IF Config.Concurrency < 0
       THEN Die(2, "panic: makechan: size out of range") /\ gate' = gate
       ELSE gate' = TRUE /\ mainpc' = "spawn" /\ exit' = exit
    /\ UNCHANGED <<flags, console, lines, urls, semaphore, mu, wg, next, wpc, result,
                   shared, results, calls, report>>

\* Spawn that starts a goroutine only while a slot of the gate is free.
SpawnWhenSlotFree ==
    /\ Alive /\ mainpc = "spawn"
    /\ next <= Len(urls)
    /\ Cardinality({w \in Workers : wpc[w] \notin {"idle", "done"}})
          < Config.Concurrency
    /\ wg' = wg + 1
    /\ wpc' = [wpc EXCEPT ![next] = "acquire"]
    /\ next' = next + 1
    /\ UNCHANGED <<flags, mainpc, exit, console, lines, urls, gate, semaphore, mu,
                   result, shared, results, calls, report>>

\* main.go:173-186: one iteration of the loop: wg.Add(1) and the go statement.
Spawn ==
    /\ Alive /\ mainpc = "spawn"
    /\ next <= Len(urls)
    /\ wg' = wg + 1
    /\ wpc' = [wpc EXCEPT ![next] = "acquire"]
    /\ next' = next + 1
    /\ UNCHANGED <<flags, mainpc, exit, console, lines, urls, gate, semaphore, mu,
                   result, shared, results, calls, report>>

\* WaitReturn without wg.Wait(): the loop ends and the function returns.
WaitReturnEarly ==
    /\ Alive /\ mainpc = "spawn"
    /\ next > Len(urls)
    /\ results' = shared
    /\ mainpc' = "save"
    /\ UNCHANGED <<flags, exit, console, lines, urls, gate, semaphore, mu, wg, next,
                   wpc, result, shared, calls, report>>

\* main.go:188-189 and 79: wg.Wait() returns, testBulkCORS returns results.
WaitReturn ==
    /\ Alive /\ mainpc = "spawn"
    /\ next > Len(urls)
    /\ wg = 0
    /\ results' = shared
    /\ mainpc' = "save"
    /\ UNCHANGED <<flags, exit, console, lines, urls, gate, semaphore, mu, wg, next,
                   wpc, result, shared, calls, report>>

\* main.go:204-225: the block saveResults writes for one result.  The lines
\* of "All Headers" come in the order of a range over a map: a set here.
FormatBlock(r) ==
    [head |-> <<<<"URL: ", r.URL>>, <<"Status Code: ", r.StatusCode>>,
                <<"Has CORS: ", r.HasCORS>>>>
              \o (IF r.Error # "" THEN <<<<"Error: ", r.Error>>>> ELSE <<>>),
     cors |-> [i \in 1..Len(r.CORSHeaders) |->
                 <<r.CORSHeaders[i], r.Headers[r.CORSHeaders[i]]>>],
     all  |-> {<<key, r.Headers[key]>> : key \in DOMAIN r.Headers}]

\* main.go:82-84, 192-229: os.Create may fail, which is fatal; the writes'
\* errors are dropped, so a failing write leaves a shorter file and no error.
SaveResults ==
    /\ Alive /\ mainpc = "save"
    /\ \E outcome \in {"ok", "create fails", "write fails"} :
          CASE outcome = "create fails" ->
                  /\ Die(1, "Error saving results")
                  /\ report' = report
            [] outcome = "write fails" ->
                  /\ \E k \in 0..(Len(results) - 1) :
                        report' = [i \in 1..k |-> FormatBlock(results[i])]
                  /\ mainpc' = "summary" /\ exit' = exit
            [] OTHER ->
                  /\ report' = [i \in 1..Len(results) |-> FormatBlock(results[i])]
                  /\ mainpc' = "summary" /\ exit' = exit
    /\ UNCHANGED <<flags, console, lines, urls, gate, semaphore, mu, wg, next, wpc,
                   result, shared, results, calls>>

\* Tally that counts every result as successful.
TallyCountsAll(rs, i, successful, withCORS) ==
    [successful |-> Len(rs),
     withCORS |-> Cardinality({k \in 1..Len(rs) : rs[k].HasCORS})]

RECURSIVE Tally(_, _, _, _)
\* The loop of main.go:236-243 from index i on, with the counters so far.
Tally(rs, i, successful, withCORS) ==
    IF i > Len(rs) THEN [successful |-> successful, withCORS |-> withCORS]
    ELSE Tally(rs, i + 1,
               IF rs[i].Error = "" THEN successful + 1 ELSE successful,
               IF rs[i].HasCORS THEN withCORS + 1 ELSE withCORS)

\* main.go:231-255; the rate is in hundredths of a percent, as %.2f prints it.
Summary(rs) ==
    LET total == Len(rs)
        count == Tally(rs, 1, 0, 0)
    IN [total |-> total, successful |-> count.successful,
        withCORS |-> count.withCORS,
        divided |-> total > 0,
        rate |-> IF total > 0
                 THEN (count.successful * 20000 + total) \div (2 * total)
                 ELSE 0]

\* main.go:90-91: printSummary, then main returns.
PrintSummary ==
    /\ Alive /\ mainpc = "summary"
    /\ console' = Append(console, Summary(results))
    /\ Die(0, "done")
    /\ UNCHANGED <<flags, lines, urls, gate, semaphore, mu, wg, next, wpc, result,
                   shared, results, calls, report>>

(***************************************************************************)
(* The worker goroutines of testBulkCORS (main.go:175-185).                *)
(***************************************************************************)
\* Acquire with a send that never blocks.
AcquireNoLimit(w) ==
    /\ Alive /\ wpc[w] = "acquire"
    /\ gate
    /\ semaphore' = semaphore + 1
    /\ wpc' = [wpc EXCEPT ![w] = "probe"]
    /\ UNCHANGED <<flags, mainpc, exit, console, lines, urls, gate, mu, wg, next,
                   result, shared, results, calls, report>>

\* Acquire through a channel with a buffer of one element.
AcquireSerial(w) ==
    /\ Alive /\ wpc[w] = "acquire"
    /\ gate /\ semaphore < 1
    /\ semaphore' = semaphore + 1
    /\ wpc' = [wpc EXCEPT ![w] = "probe"]
    /\ UNCHANGED <<flags, mainpc, exit, console, lines, urls, gate, mu, wg, next,
                   result, shared, results, calls, report>>

\* main.go:177: the send blocks while the channel's buffer is full.
Acquire(w) ==
    /\ Alive /\ wpc[w] = "acquire"
    /\ gate /\ semaphore < Config.Concurrency
    /\ semaphore' = semaphore + 1
    /\ wpc' = [wpc EXCEPT ![w] = "probe"]
    /\ UNCHANGED <<flags, mainpc, exit, console, lines, urls, gate, mu, wg, next,
                   result, shared, results, calls, report>>

\* Probe in which a failed request ends the process, as log.Fatalf would.
ProbeFatal(w) ==
    /\ Alive /\ wpc[w] = "probe"
    /\ \E world \in Worlds(urls[w]) :
          WorkerCall(w, Invoke(urls[w], Config, world[1], world[2]))
    /\ wpc' = [wpc EXCEPT ![w] = "lock"]
    /\ IF result'[w].Error # ""
       THEN Die(1, "Request failed")
       ELSE mainpc' = mainpc /\ exit' = exit
    /\ UNCHANGED <<flags, console, lines, urls, gate, semaphore, mu, wg,
                   next, shared, results, report>>

\* main.go:180
Probe(w) ==
    /\ Alive /\ wpc[w] = "probe"
    /\ \E world \in Worlds(urls[w]) :
          WorkerCall(w, Invoke(urls[w], Config, world[1], world[2]))
    /\ wpc' = [wpc EXCEPT ![w] = "lock"]
    /\ UNCHANGED <<flags, mainpc, exit, console, lines, urls, gate, semaphore, mu, wg,
                   next, shared, results, report>>

\* Lock that does not wait for the mutex.
LockNoWait(w) ==
    /\ Alive /\ wpc[w] = "lock"
    /\ mu' = w
    /\ wpc' = [wpc EXCEPT ![w] = "append"]
    /\ UNCHANGED <<flags, mainpc, exit, console, lines, urls, gate, semaphore, wg,
                   next, result, shared, results, calls, report>>

\* main.go:182
Lock(w) ==
    /\ Alive /\ wpc[w] = "lock"
    /\ mu = 0
    /\ mu' = w
    /\ wpc' = [wpc EXCEPT ![w] = "append"]
    /\ UNCHANGED <<flags, mainpc, exit, console, lines, urls, gate, semaphore, wg,
                   next, result, shared, results, calls, report>>

\* AppendResult that keeps only the results of requests that went through.
AppendResultDropsFailed(w) ==
    /\ Alive /\ wpc[w] = "append"
    /\ shared' = IF result[w].Error = "" THEN Append(shared, result[w]) ELSE shared
    /\ wpc' = [wpc EXCEPT ![w] = "unlock"]
    /\ UNCHANGED <<flags, mainpc, exit, console, lines, urls, gate, semaphore, mu, wg,
                   next, result, results, calls, report>>

\* main.go:183
AppendResult(w) ==
    /\ Alive /\ wpc[w] = "append"
    /\ shared' = Append(shared, result[w])
    /\ wpc' = [wpc EXCEPT ![w] = "unlock"]
    /\ UNCHANGED <<flags, mainpc, exit, console, lines, urls, gate, semaphore, mu, wg,
                   next, result, results, calls, report>>

\* Unlock that leaves the mutex held.
UnlockForgets(w) ==
    /\ Alive /\ wpc[w] = "unlock"
    /\ mu' = mu
    /\ wpc' = [wpc EXCEPT ![w] = "release"]
    /\ UNCHANGED <<flags, mainpc, exit, console, lines, urls, gate, semaphore, wg,
                   next, result, shared, results, calls, report>>

\* main.go:184
Unlock(w) ==
    /\ Alive /\ wpc[w] = "unlock"
    /\ mu' = 0
    /\ wpc' = [wpc EXCEPT ![w] = "release"]
    /\ UNCHANGED <<flags, mainpc, exit, console, lines, urls, gate, semaphore, wg,
                   next, result, shared, results, calls, report>>

\* Release that gives the slot back only after a probe without error.
ReleaseOnSuccess(w) ==
    /\ Alive /\ wpc[w] = "release"
    /\ semaphore > 0
    /\ semaphore' = IF result[w].Error = "" THEN semaphore - 1 ELSE semaphore
    /\ wpc' = [wpc EXCEPT ![w] = "wgdone"]
    /\ UNCHANGED <<flags, mainpc, exit, console, lines, urls, gate, mu, wg, next,
                   result, shared, results, calls, report>>

\* main.go:178: the deferred receive, the first deferred call to run.
Release(w) ==
    /\ Alive /\ wpc[w] = "release"
    /\ semaphore > 0
    /\ semaphore' = semaphore - 1
    /\ wpc' = [wpc EXCEPT ![w] = "wgdone"]
    /\ UNCHANGED <<flags, mainpc, exit, console, lines, urls, gate, mu, wg, next,
                   result, shared, results, calls, report>>

\* main.go:176: the deferred wg.Done(), the last deferred call to run.
Done(w) ==
    /\ Alive /\ wpc[w] = "wgdone"
    /\ wg' = wg - 1
    /\ wpc' = [wpc EXCEPT ![w] = "done"]
    /\ UNCHANGED <<flags, mainpc, exit, console, lines, urls, gate, semaphore, mu,
                   next, result, shared, results, calls, report>>


Next ==
    \/ ShowVersion
    \/ Usage
    \/ SingleURL
    \/ OpenFile
    \/ ScanLine
    \/ ScanEnd
    \/ MakeGate
    \/ Spawn
    \/ WaitReturn
    \/ SaveResults
    \/ PrintSummary
    \/ \E w \in Workers : Acquire(w)
    \/ \E w \in Workers : Probe(w)
    \/ \E w \in Workers : Lock(w)
    \/ \E w \in Workers : AppendResult(w)
    \/ \E w \in Workers : Unlock(w)
    \/ \E w \in Workers : Release(w)
    \/ \E w \in Workers : Done(w)

Spec == Init /\ [][Next]_vars

(***************************************************************************)
(* Fair scheduling of a bulk scan: the Go scheduler runs every goroutine   *)
(* that can run, so the loop of testBulkCORS and each worker take their    *)
(* next step if it stays possible; a probe's step stays possible until     *)
(* taken, client.Do returning at the latest when the Timeout of            *)
(* main.go:101-103 expires.                                                *)
(***************************************************************************)
\* The steps of testBulkCORS itself, and those of the worker goroutine w
\* around its probe.
Coordinator == Spawn \/ WaitReturn

WorkerStep(w) ==
    \/ Acquire(w) \/ Lock(w) \/ AppendResult(w)
    \/ Unlock(w) \/ Release(w) \/ Done(w)

\* Every probe eventually finishes: no worker stays inside testCORS for ever.
ProbesFinish == \A w \in Workers : []<>(wpc[w] # "probe")

Fairness ==
    /\ WF_vars(Coordinator)
    /\ \A w \in Workers : WF_vars(WorkerStep(w))
    /\ ProbesFinish

SpecFair == Init /\ [][Next]_vars /\ Fairness

(***************************************************************************)
(* printSummary on its own: main hands it a result list, here any list of  *)
(* up to MaxResults results testCORS can return, the empty list included.  *)
(***************************************************************************)
SummaryFlags ==
    [showVersion |-> FALSE, urlInput |-> "", fileInput |-> "urls.txt",
     method |-> "GET", concurrency |-> 1]

SummaryConfig ==
    [Method |-> SummaryFlags.method,
     Headers |-> ("User-Agent" :> "CORS-Testing-Tool/1.0"),
     Concurrency |-> SummaryFlags.concurrency]

\* What testCORS returns for the targets of SummaryTargets, in every world.
SummaryTargets == {"http://a.t/", "https://b.t", ":bad"}
ResultsOf(targetURL) ==
    {testCORS(targetURL, SummaryConfig, world[1], world[2]) :
        world \in Worlds(targetURL)}
ResultPool == UNION {ResultsOf(u) : u \in SummaryTargets}

ResultLists == UNION {[1..n -> ResultPool] : n \in 0..MaxResults}

InitSummary ==
    /\ flags = SummaryFlags
    /\ mainpc = "summary"
    /\ exit = Running
    /\ console = <<>>
    /\ lines = 0
    /\ urls = <<>>
    /\ gate = FALSE
    /\ semaphore = 0
    /\ mu = 0
    /\ wg = 0
    /\ next = 1
    /\ wpc = [w \in Workers |-> "idle"]
    /\ result = [w \in Workers |-> NoResult]
    /\ shared = <<>>
    /\ results \in ResultLists
    /\ calls = [w \in {0} \cup Workers |-> <<>>]
    /\ report = <<"none">>

NextSummary == PrintSummary

SpecSummary == InitSummary /\ [][NextSummary]_vars

(***************************************************************************)
(* Vocabulary of the properties.                                           *)
(***************************************************************************)
\* The run scans a file (main.go:75-80).
BulkMode == ~flags.showVersion /\ flags.urlInput = "" /\ flags.fileInput # ""

\* testBulkCORS has returned to main.
Returned == gate /\ (mainpc \in {"save", "summary"}
                     \/ exit.reason \in {"done", "Error saving results"})

\* The workers of this run: one per url.
Spawned == 1..Len(urls)

\* How many entries of the sequence of strings q are u.
Occurrences(q, u) == Cardinality({i \in 1..Len(q) : q[i] = u})

ResultURLs(rs) == [i \in 1..Len(rs) |-> rs[i].URL]

\* Workers holding a slot of the gate, and workers inside testCORS.
Holders == {w \in Workers : wpc[w] \in {"probe", "lock", "append", "unlock", "release"}}
InFlight == {w \in Workers : wpc[w] = "probe"}

(***************************************************************************)
(* Properties.                                                             *)
(***************************************************************************)
\* C1: with a concurrency limit >= 1, when testBulkCORS has returned the
\* result list has exactly one entry per submitted URL: as many entries as
\* urls, the same URLs with the same multiplicities, and each url was
\* probed exactly once; and no url is ever probed twice.
C1_ExactlyOneResultPerTarget ==
    /\ \A w \in Workers : Len(calls[w]) <= 1
    /\ (Returned /\ flags.concurrency >= 1) =>
          /\ Len(results) = Len(urls)
          /\ \A i \in 1..Len(urls) :
                Occurrences(ResultURLs(results), urls[i]) = Occurrences(urls, urls[i])
          /\ \A w \in Spawned : Len(calls[w]) = 1 /\ calls[w][1].url = urls[w]

\* C1 witness: a scan of the same url twice under the limit N + 10 has
\* returned both results.
C1_Witness ==
    /\ Returned /\ Len(urls) = 2 /\ urls[1] = urls[2]
    /\ flags.concurrency = Len(urls) + 10
    /\ Len(results) = 2

\* C2: the workers holding a slot, hence the invocations of testCORS in
\* flight, never exceed config.Concurrency; the channel's buffer holds one
\* element per holder; under a limit of 1 no two invocations overlap.
C2_InFlightBounded ==
    gate =>
      /\ Cardinality(Holders) = semaphore
      /\ semaphore <= flags.concurrency
      /\ Cardinality(InFlight) <= flags.concurrency
      /\ flags.concurrency = 1 =>
            \A v, w \in InFlight : v = w

\* C2 witness: under a limit of 1 the gate is full with one probe in flight
\* while another worker waits for the slot.
C2_Witness ==
    /\ flags.concurrency = 1 /\ Cardinality(InFlight) = 1
    /\ \E w \in Workers : wpc[w] = "acquire"

\* C3: once testBulkCORS has returned, every spawned worker has appended and
\* finished, the mutex is free, and the list main holds is the complete
\* shared list, so the reads of main.go:82-90 follow every append.
C3_ReturnAfterAllAppends ==
    Returned =>
      /\ \A w \in Spawned : wpc[w] = "done" /\ Len(calls[w]) = 1
      /\ mu = 0 /\ wg = 0
      /\ results = shared /\ Len(shared) = Len(urls)

\* C3 witness: a scan of at least two urls has returned and main is about to
\* read the list.
C3_Witness ==
    Returned /\ mainpc = "save" /\ Len(urls) >= 2 /\ Len(results) = Len(urls)

\* Every invocation of testCORS so far.
AllCalls == UNION {{calls[c][i] : i \in 1..Len(calls[c])} : c \in DOMAIN calls}

\* The invocations made by the workers of testBulkCORS.
WorkerCalls == UNION {{calls[w][i] : i \in 1..Len(calls[w])} : w \in Workers}

\* The request could not be built, or client.Do returned an error.
RequestFailed(c) == ~c.built \/ c.answer.kind = "error"

\* The server answered with a status outside 200..299.
Non2xx(c) == c.answer.kind = "response" /\ c.answer.StatusCode \notin 200..299

\* C4 as stated: every failure path, a response with a non-2xx status
\* included, yields a result with a non-empty error field.
C4_ErrorOnEveryFailurePath ==
    \A c \in AllCalls : (RequestFailed(c) \/ Non2xx(c)) => c.result.Error # ""

\* C4 amended: each invocation returns one result for its URL; when the
\* request cannot be built or client.Do fails (connection failure, timeout)
\* the error field is non-empty; any response, 2xx or not, is recorded with
\* its status code and an empty error field.
C4_ErrorOnRequestFailure ==
    \A c \in AllCalls :
       /\ c.result.URL = c.url
       /\ RequestFailed(c) => c.result.Error # ""
       /\ c.answer.kind = "response" =>
             c.result.Error = "" /\ c.result.StatusCode = c.answer.StatusCode

\* C4 witness: one invocation met a transport failure and another a 404.
C4_Witness ==
    \E c, d \in AllCalls :
       /\ c.answer.kind = "error" /\ c.result.Error # ""
       /\ Non2xx(d) /\ d.result.StatusCode = 404 /\ d.result.Error = ""

\* C5: a failed request never ends the process and never costs another
\* target its result: a process that ended after a probe ended after the
\* scan returned, and the returned list holds every worker's own result,
\* with a populated error field for each failed target.
C5_FailuresStayLocal ==
    /\ (~Alive /\ \E w \in Workers : Len(calls[w]) > 0) =>
          Returned /\ exit.reason \in {"done", "Error saving results"}
    /\ Returned =>
          \A w \in Spawned :
             /\ Len(calls[w]) = 1
             /\ \E i \in 1..Len(results) : results[i] = calls[w][1].result
             /\ RequestFailed(calls[w][1]) => calls[w][1].result.Error # ""

\* C5 witness: a scan returned in which one target failed and another
\* got a response.
C5_Witness ==
    /\ Returned /\ Len(results) = 2
    /\ \E v, w \in Spawned :
          /\ RequestFailed(calls[v][1]) /\ calls[v][1].result.Error # ""
          /\ calls[w][1].answer.kind = "response" /\ calls[w][1].result.Error = ""

\* The strings that can reach testCORS, and those of them isValidURL accepts.
KnownURLs == UrlInputPool \cup {TrimSpace(text) : text \in LinePool}
ValidURLs == {u \in KnownURLs : isValidURL(u)}

\* C6 as stated: every URL handed to testCORS, in single-URL mode or file
\* mode, satisfies isValidURL.
C6_EveryProbedURLValid ==
    \A c \in AllCalls : c.url \in ValidURLs

\* C6 amended: in file mode every url kept by the scanner loop, hence every
\* URL a worker hands to testCORS, satisfies isValidURL (single-URL mode
\* hands -url to testCORS unvalidated).
C6_FileURLsValid ==
    /\ \A i \in 1..Len(urls) : urls[i] \in ValidURLs
    /\ \A c \in WorkerCalls : c.url \in ValidURLs

\* C6 witness: a worker probed a url of a file of which a line was skipped.
C6_Witness ==
    /\ lines > Len(urls)
    /\ \E w \in Workers : Len(calls[w]) = 1

\* C7: the gate is never built, and no worker is ever dispatched, under a
\* concurrency limit below 1.
C7_GateLimitPositive ==
    (gate \/ \E w \in Workers : wpc[w] # "idle") => flags.concurrency >= 1

\* C8: a file without a valid URL ends the run with the fatal error "No
\* valid URLs found in file": no gate, no worker, no probe, no report, no
\* result list; and no run gets past the scanner loop with an empty list.
C8_EmptyInputIsFatal ==
    /\ (BulkMode /\ Len(urls) = 0 /\ mainpc \notin {"start", "scan"}) =>
          /\ exit.code = 1
          /\ exit.reason \in {"No valid URLs found in file", "Error reading file",
                              "Error opening file"}
    /\ exit.reason = "No valid URLs found in file" =>
          /\ exit.code = 1 /\ Len(urls) = 0
          /\ ~gate /\ wg = 0 /\ \A w \in Workers : wpc[w] = "idle"
          /\ AllCalls = {}
          /\ report = <<"none">> /\ results = <<>> /\ shared = <<>>

\* C8 witness: a file of two lines, neither a valid URL, ended the run.
C8_Witness ==
    exit.reason = "No valid URLs found in file" /\ lines = 2

\* The header name, lowercased, contains one of the six CORS substrings.
MatchesCORS(name) ==
    \E i \in 1..Len(corsHeaders) : Contains(ToLower(name), corsHeaders[i])

\* The names of the pool that match, and those among a response's headers.
MatchingNames == {name \in HeaderPool : MatchesCORS(name)}
Matching(header) == DOMAIN header \cap MatchingNames

\* C9: for every response, has-CORS is true iff some header name matches,
\* the CORS-header list holds exactly the matching names, once each, and
\* the error field is empty.
C9_CORSHeadersDetected ==
    \A c \in AllCalls :
       c.answer.kind = "response" =>
          /\ c.result.HasCORS <=> Matching(c.answer.Header) # {}
          /\ {c.result.CORSHeaders[i] : i \in 1..Len(c.result.CORSHeaders)}
                = Matching(c.answer.Header)
          /\ Len(c.result.CORSHeaders) = Cardinality(Matching(c.answer.Header))
          /\ c.result.Error = ""

\* C9 witness: a response with Access-Control-Allow-Origin,
\* Access-Control-Allow-Credentials and a header that holds a CORS name
\* inside a longer name was recorded with the three names listed.
C9_Witness ==
    \E c \in AllCalls :
       /\ c.result.HasCORS /\ Len(c.result.CORSHeaders) = 3
       /\ \E i, j, k \in 1..3 :
             /\ c.result.CORSHeaders[i] = "Access-Control-Allow-Origin"
             /\ c.result.CORSHeaders[j] = "Access-Control-Allow-Credentials"
             /\ c.result.CORSHeaders[k] = "X-Access-Control-Max-Age"

\* scheme://host of a parsed URL, and of each string url.Parse accepts.
RealOrigin(parsed) == parsed.Scheme \o "://" \o parsed.Host
RealOriginOf == [u \in {k \in KnownURLs : ~urlParse(k).err} |-> RealOrigin(urlParse(u))]

\* C10: the Origin of every request testCORS builds is scheme://host of the
\* target URL followed by "-test.cors.com", and differs from scheme://host.
C10_OriginIsSpoofed ==
    \A c \in AllCalls :
       c.built =>
          /\ c.url \in DOMAIN RealOriginOf
          /\ c.origin = RealOriginOf[c.url] \o "-test.cors.com"
          /\ c.origin # RealOriginOf[c.url]

\* C10 witness: a request went out to a.t with the spoofed Origin.
C10_Witness ==
    \E c \in AllCalls : c.network /\ c.origin = "http://a.t-test.cors.com"

\* The report saveResults writes when every write goes through.
WholeReport == [i \in 1..Len(results) |-> FormatBlock(results[i])]

\* C11: a report file that cannot be created, or a write to it that
\* fails, ends the run with a fatal error, after the scan: a run that failed
\* to save ended with code 1 once every worker was done, and a run that
\* goes on to the summary has written the whole report.
C11_OutputErrorsAreFatal ==
    /\ exit.reason = "Error saving results" =>
          exit.code = 1 /\ \A w \in Spawned : wpc[w] = "done"
    /\ (mainpc = "summary" \/ exit.reason = "done") => report = WholeReport

\* The summary printSummary printed last.
Printed == console[Len(console)]

\* The results of a list that carry an error, and those with HasCORS set.
Failed(rs) == {i \in 1..Len(rs) : rs[i].Error # ""}
WithCORS(rs) == {i \in 1..Len(rs) : rs[i].HasCORS}

\* C12: for every result list, printSummary reports total = the number of
\* results, successful = the number of results with an empty error field,
\* withCORS = the number with HasCORS set; a failed target counts in total
\* and not in successful; for the empty list the rate is 0% and the division
\* is not performed.
C12_SummaryCounts ==
    exit.reason = "done" =>
       /\ Printed.total = Len(results)
       /\ Printed.successful = Len(results) - Cardinality(Failed(results))
       /\ Printed.withCORS = Cardinality(WithCORS(results))
       /\ Printed.total = 0 => ~Printed.divided /\ Printed.rate = 0
       /\ Printed.total > 0 =>
             /\ Printed.divided
             /\ 2 * Printed.total * Printed.rate
                   <= Printed.successful * 20000 + Printed.total
             /\ 2 * Printed.total * (Printed.rate + 1)
                   > Printed.successful * 20000 + Printed.total

\* C12 witness: the summary of a list of three results, one of them failed
\* and one with CORS headers, was printed with a rate of 66.67%.
C12_Witness ==
    /\ exit.reason = "done" /\ Len(results) = 3
    /\ Cardinality(Failed(results)) = 1 /\ Cardinality(WithCORS(results)) = 1
    /\ Printed.successful = 2 /\ Printed.rate = 6667

\* The empty list: printSummary printed zeros and did not divide.
C12_EmptyListWitness ==
    /\ exit.reason = "done" /\ results = <<>>
    /\ Printed.total = 0 /\ Printed.rate = 0 /\ ~Printed.divided

\* Nothing of a scan has happened: no probe, no worker, no result, no report.
NothingScanned ==
    /\ AllCalls = {}
    /\ ~gate /\ \A w \in Workers : wpc[w] = "idle"
    /\ results = <<>> /\ shared = <<>>
    /\ report = <<"none">>

\* The run has neither -url nor -file, and no -version.
NoTarget == ~flags.showVersion /\ flags.urlInput = "" /\ flags.fileInput = ""

\* C13: a run with -version, and a run with neither -url nor -file, issues
\* no probe and writes no report; the first prints the version string and
\* exits with status 0, the second prints the usage and exits with a
\* non-zero status.
C13_NoScanWithoutTarget ==
    /\ flags.showVersion =>
          /\ NothingScanned
          /\ ~Alive => /\ exit = [code |-> 0, reason |-> "version"]
                       /\ console = <<"CORS Tool v1.0.0">>
    /\ NoTarget =>
          /\ NothingScanned
          /\ ~Alive => /\ exit.reason = "usage" /\ exit.code # 0
                       /\ Len(console) = 2
                       /\ HasPrefix(console[2], "Usage: ")

\* C13 witness: a run with -version, a -url and a -file printed the version
\* and exited.
C13_Witness ==
    /\ exit.reason = "version" /\ flags.urlInput # "" /\ flags.fileInput # ""
    /\ console = <<"CORS Tool v1.0.0">>

\* A run without a target printed the usage and exited with status 1.
C13_UsageWitness ==
    NoTarget /\ exit = [code |-> 1, reason |-> "usage"] /\ Len(console) = 2

\* Workers that have given their slot back.
Released == {w \in Workers : wpc[w] \in {"wgdone", "done"}}

\* Worker w gives a slot back in this step.
Releases(w) == wpc[w] = "release" /\ wpc'[w] = "wgdone"

\* C14: every worker that acquired a slot gives back that one slot, once,
\* when it completes, whatever its probe returned, and no worker gives back
\* a slot it does not hold: the occupied slots are those of the workers
\* between acquire and release; the channel loses an element only in a step
\* in which one worker that holds a slot passes its deferred receive, and
\* then exactly one; a worker that has released never holds or releases
\* again; and no slot is occupied once testBulkCORS has returned.
C14_SlotReleasedOnce ==
    /\ [](gate => semaphore = Cardinality(Holders))
    /\ [](Returned => (semaphore = 0 /\ Holders = {} /\ Released = Spawned))
    /\ [][/\ semaphore' < semaphore =>
               /\ semaphore' = semaphore - 1
               /\ \E w \in Holders : Releases(w) /\ Holders' = Holders \ {w}
          /\ \A w \in Workers :
               /\ (wpc[w] = "release" /\ wpc'[w] # "release") =>
                     Releases(w) /\ semaphore' = semaphore - 1
               /\ w \in Released => w \in Released']_vars

\* C14 witness: a scan of two urls under a limit of 1 has returned with the
\* channel empty, one probe having failed and the other not.
C14_Witness ==
    /\ Returned /\ semaphore = 0 /\ flags.concurrency = 1 /\ Len(urls) = 2
    /\ \E v, w \in Released : result[v].Error # "" /\ result[w].Error = ""

\* Workers blocked in, or about to make, the send of main.go:177.
Waiting == {w \in Workers : wpc[w] = "acquire"}

\* C15 as stated: for every limit >= 1, while a worker is inside its probe
\* every other worker that has not probed yet can acquire a slot.
C15_HungWorkerDelaysNoOne ==
    (gate /\ Alive /\ flags.concurrency >= 1) =>
       \A h \in InFlight : \A v \in Waiting : ENABLED Acquire(v)

\* C15 amended: a worker inside its probe keeps one slot of the gate, so a
\* waiting worker can acquire exactly when the slots held by the others
\* leave one free beside it; under a limit of 1 no other worker can start
\* while one probes, under a limit >= 2 one probing worker alone stops
\* nobody.
C15_HungWorkerKeepsOneSlot ==
    (gate /\ Alive /\ flags.concurrency >= 1) =>
       \A h \in InFlight : \A v \in Waiting :
          /\ ENABLED Acquire(v) <=>
                Cardinality(Holders \ {h}) + 1 < flags.concurrency
          /\ flags.concurrency = 1 => ~ENABLED Acquire(v)
          /\ (flags.concurrency >= 2 /\ Holders = {h}) => ENABLED Acquire(v)

\* C15 witness: under a limit of 2 one worker is inside its probe and the
\* other, still waiting, can acquire.
C15_Witness ==
    /\ flags.concurrency = 2
    /\ \E h \in InFlight : \E v \in Waiting : ENABLED Acquire(v)

\* Worker goroutines spawned and not yet finished, running or blocked.
Live == {w \in Workers : wpc[w] \notin {"idle", "done"}}

\* C16 as stated: the units spawned and not yet finished are bounded by the
\* concurrency limit, whatever the number of targets.
C16_LiveBoundedByLimit ==
    (gate /\ flags.concurrency >= 1) => Cardinality(Live) <= flags.concurrency

\* C16 amended: the limit bounds the workers that hold a slot; the loop of
\* main.go:173 spawns one goroutine per url without waiting for a slot, so
\* the goroutines spawned and not yet finished are bounded by the number of
\* urls, and only by it.
C16_LiveBoundedByTargets ==
    gate =>
       /\ Cardinality(Holders) <= flags.concurrency
       /\ Live \subseteq Spawned
       /\ Cardinality(Live) <= Len(urls)
       /\ (Alive /\ mainpc = "spawn" /\ next <= Len(urls)) => ENABLED Spawn

\* C16 witness: under a limit of 1 every url of a list of at least two has
\* its goroutine alive, one holding the slot and the others blocked.
C16_Witness ==
    /\ flags.concurrency = 1 /\ Len(urls) >= 2
    /\ Cardinality(Live) = Len(urls)
    /\ Cardinality(Holders) = 1 /\ Cardinality(Waiting) = Len(urls) - 1

\* Workers between mu.Lock() and mu.Unlock().
Critical == {w \in Workers : wpc[w] \in {"append", "unlock"}}

\* Worker w appends its result to the shared list in this step.
Appends(w) ==
    /\ wpc[w] = "append" /\ wpc'[w] = "unlock"
    /\ shared' = Append(shared, result[w])

\* C17: at most one worker is between mu.Lock and mu.Unlock, and it is the
\* one holding the mutex; the shared list changes only in the step of a
\* worker that holds the mutex and appends its own result, so it grows by
\* exactly one and never shrinks; and beside the list (and the channel,
\* the mutex and the WaitGroup that synchronise them) the workers share
\* nothing they write: the configuration and the urls stay as they were,
\* and a worker's result is written by its own probe only.
C17_AppendsMutuallyExclusive ==
    /\ [](/\ Cardinality(Critical) <= 1
          /\ \A w \in Critical : mu = w
          /\ Critical = {} => mu = 0)
    /\ [][/\ shared' # shared =>
               /\ Len(shared') = Len(shared) + 1
               /\ \E w \in Critical : mu = w /\ Appends(w)
          /\ Len(shared') >= Len(shared)
          /\ Live # {} => (flags' = flags /\ urls' = urls)
          /\ \A w \in Workers :
                result'[w] # result[w] => (wpc[w] = "probe" /\ wpc'[w] = "lock")]_vars

\* C17 witness: one worker holds the mutex and is about to append while
\* another, its probe done, waits for the mutex.
C17_Witness ==
    \E v, w \in Workers :
       /\ wpc[v] = "append" /\ mu = v
       /\ wpc[w] = "lock"

\* A result as testCORS leaves it when it returns early with an error.
Bare(r) ==
    /\ r.StatusCode = 0 /\ DOMAIN r.Headers = {}
    /\ ~r.HasCORS /\ r.CORSHeaders = <<>>

\* C18: a result with a non-empty error field has status code 0, no
\* headers, HasCORS false and no CORS headers; and a target whose request
\* cannot be built gets such a result, with the error set, without a
\* network call.
C18_ErrorResultIsBare ==
    \A c \in AllCalls :
       /\ c.result.Error # "" => Bare(c.result)
       /\ ~c.built =>
             /\ ~c.network /\ c.answer.kind = "none"
             /\ HasPrefix(c.result.Error, "Error creating request: ")
             /\ Bare(c.result)

\* C18 witness: under a method that is no token a worker could not build
\* the request for a valid url and returned the error without a network call.
C18_Witness ==
    \E c \in WorkerCalls :
       /\ ~c.built /\ ~c.network /\ c.url \in ValidURLs
       /\ c.result.Error # "" /\ Bare(c.result)

\* testBulkCORS is running under a limit >= 1.
Scanning == gate /\ flags.concurrency >= 1 /\ ~Returned

\* Some step of the scan is possible: the loop's, or a worker's, a worker
\* inside testCORS being one that can go on.
CanStep ==
    \/ ENABLED Coordinator
    \/ \E w \in Workers : ENABLED WorkerStep(w)
    \/ \E w \in InFlight : Alive /\ Worlds(urls[w]) # {}

\* C19: under fair scheduling, with probes that finish, a scan of a
\* non-empty list under a limit >= 1 makes every waiting worker acquire a
\* slot, every spawned worker finish, and testBulkCORS return; and while it
\* runs some step is always possible.
C19_ScanTerminates ==
    /\ \A w \in Workers :
          (wpc[w] = "acquire" /\ flags.concurrency >= 1) ~> (wpc[w] = "probe")
    /\ \A w \in Workers :
          (wpc[w] # "idle" /\ flags.concurrency >= 1) ~> (wpc[w] = "done")
    /\ Scanning ~> Returned
    /\ [](Scanning => CanStep)

\* C19 witness: under a limit of 1 a scan of at least two urls, each worker
\* having waited its turn, has returned and the run has ended.
C19_Witness ==
    /\ flags.concurrency = 1 /\ Len(urls) >= 2
    /\ exit.reason = "done" /\ Returned
    /\ \A w \in Spawned : wpc[w] = "done"

====
